---- MODULE Spec2Model ----
(***************************************************************************)
(* mobcsv (src/src/main.rs): read CSV rows {ph, name, count}, clean the    *)
(* phone, infer a country prefix, keep the rows whose phone matches        *)
(* MOB_RE and write them out.                                              *)
(*                                                                         *)
(* A phone is a sequence of one-character strings.  Two specifications:    *)
(*   Spec    a run of main over an input file (a sequence of rows);        *)
(*   SpecFn  calls of remove_bad_chars / standardize_ph / is_good_ph on    *)
(*           one record, as the unit tests make them.                      *)
(***************************************************************************)
EXTENDS Integers, Sequences, FiniteSets, TLC

VARIABLES
  input,     \* main: the rows the reader will yield, in order
  pos,       \* main: number of loop iterations completed
  output,    \* main: records handed to wrt.serialize, in order
  rejected,  \* main: number of records is_good_ph turned down
  pc,        \* main: "start", "loop", "flush", "done" (Ok(())), "error" (Err)
  record,    \* fn: the record the calls started from
  trace,     \* fn: names of the functions called so far, in order
  arg,       \* fn: argument of the last call
  ret        \* fn: result of the last call, as an Option: <<>> or <<r>>

vars == <<input, pos, output, rejected, pc, record, trace, arg, ret>>
mainVars == <<input, pos, output, rejected, pc>>
fnVars == <<record, trace, arg, ret>>

----------------------------------------------------------------------------
(* Bounds *)
MaxShort == 3      \* ShortPhones: every string up to this length
MaxInserts == 2    \* DecoratedPhones: characters inserted into a base
MaxRows == 3       \* rows in an input file

----------------------------------------------------------------------------
(* Characters *)
Digit == {"0", "1", "2", "3", "4", "5", "6", "7", "8", "9"}

\* the character class of REPLACER_RE: [!@+#$%\-^&*() ]
BadChars == {"!", "@", "+", "#", "$", "%", "-", "^", "&", "*", "(", ")", " "}

\* char::is_whitespace, as far as the modelled alphabet goes
is_whitespace(c) == c \in {" ", "\t", "\n", "\r"}

\* Option<Record>
None == <<>>
Some(r) == <<r>>

----------------------------------------------------------------------------
(* str::trim *)
RECURSIVE trim_start(_)
trim_start(s) ==
  IF s # <<>> /\ is_whitespace(Head(s)) THEN trim_start(Tail(s)) ELSE s

RECURSIVE trim_end(_)
trim_end(s) ==
  IF s # <<>> /\ is_whitespace(s[Len(s)])
    THEN trim_end(SubSeq(s, 1, Len(s) - 1))
    ELSE s

trim(s) == trim_end(trim_start(s))

----------------------------------------------------------------------------
(* REPLACER_RE = ^(0)|^(00)|[!@+#$%\-^&*() ]                               *)
(* Length of the match that starts at position i of s, 0 when there is     *)
(* none.  The regex crate takes the first alternative that matches         *)
(* (leftmost-first), and ^ holds at the start of the text only.            *)
REPLACER_RE_match(s, i) ==
  IF i = 1 /\ s[1] = "0" THEN 1
  ELSE IF i = 1 /\ Len(s) >= 2 /\ s[1] = "0" /\ s[2] = "0" THEN 2
  ELSE IF s[i] \in BadChars THEN 1
  ELSE 0

\* Regex::replace_all(s, ""): successive non-overlapping matches, left to right
RECURSIVE replace_from(_, _)
replace_from(s, i) ==
  IF i > Len(s) THEN <<>>
  ELSE LET m == REPLACER_RE_match(s, i) IN
       IF m > 0 THEN replace_from(s, i + m)
       ELSE <<s[i]>> \o replace_from(s, i + 1)

\* faulty variant: Regex::replace, which replaces the first match only
replace_all_FirstOnly(s) ==
  IF \E i \in 1..Len(s) : REPLACER_RE_match(s, i) > 0
    THEN LET i == CHOOSE k \in 1..Len(s) :
                    /\ REPLACER_RE_match(s, k) > 0
                    /\ \A j \in 1..(k - 1) : REPLACER_RE_match(s, j) = 0
             m == REPLACER_RE_match(s, i)
         IN SubSeq(s, 1, i - 1) \o SubSeq(s, i + m, Len(s))
    ELSE s

replace_all(s) == replace_from(s, 1)

\* faulty variant: the pattern without its digit class, ^((20)|(966))(.{9,11})$
MOB_RE_is_match_AnyChar(p) ==
  \E pre \in {<<"2", "0">>, <<"9", "6", "6">>} :
    /\ Len(p) >= Len(pre)
    /\ SubSeq(p, 1, Len(pre)) = pre
    /\ Len(p) - Len(pre) \in 9..11

\* MOB_RE = ^((20)|(966))([0-9]{9,11})$ ; $ is the end of the text
MOB_RE_is_match(p) ==
  \E pre \in {<<"2", "0">>, <<"9", "6", "6">>} :
    /\ Len(p) >= Len(pre)
    /\ SubSeq(p, 1, Len(pre)) = pre
    /\ Len(p) - Len(pre) \in 9..11
    /\ \A i \in (Len(pre) + 1)..Len(p) : p[i] \in Digit

----------------------------------------------------------------------------
(* The three functions of main.rs *)
\* faulty variant: the second trim left out
remove_bad_chars_NoFinalTrim(r) == [r EXCEPT !.ph = replace_all(trim(r.ph))]

\* faulty variant: the character class stripped first, the leading zero afterwards
remove_bad_chars_StripFirst(r) ==
  [r EXCEPT !.ph = trim(replace_all(SelectSeq(trim(r.ph),
                                              LAMBDA c : c \notin BadChars)))]

remove_bad_chars(r) == [r EXCEPT !.ph = trim(replace_all(trim(r.ph)))]

\* faulty variant: the country code written over the first digit
standardize_ph_Overwrite(r) ==
  IF r.ph # <<>> /\ Head(r.ph) = "1"
    THEN [r EXCEPT !.ph = <<"2", "0">> \o Tail(r.ph)]
  ELSE IF r.ph # <<>> /\ Head(r.ph) = "5"
    THEN [r EXCEPT !.ph = <<"9", "6", "6">> \o Tail(r.ph)]
  ELSE r

\* faulty variant: a fresh record built around the new phone, count defaulted
standardize_ph_FreshRecord(r) ==
  IF r.ph # <<>> /\ Head(r.ph) = "1"
    THEN [ph |-> <<"2", "0">> \o r.ph, name |-> r.name, count |-> 0]
  ELSE IF r.ph # <<>> /\ Head(r.ph) = "5"
    THEN [ph |-> <<"9", "6", "6">> \o r.ph, name |-> r.name, count |-> 0]
  ELSE r

\* faulty variant: '2' taken for a local Egyptian number too
standardize_ph_Also2(r) ==
  IF r.ph # <<>> /\ Head(r.ph) \in {"1", "2"}
    THEN [r EXCEPT !.ph = <<"2", "0">> \o r.ph]
  ELSE IF r.ph # <<>> /\ Head(r.ph) = "5"
    THEN [r EXCEPT !.ph = <<"9", "6", "6">> \o r.ph]
  ELSE r

standardize_ph(r) ==
  IF r.ph # <<>> /\ Head(r.ph) = "1" THEN [r EXCEPT !.ph = <<"2", "0">> \o r.ph]
  ELSE IF r.ph # <<>> /\ Head(r.ph) = "5"
    THEN [r EXCEPT !.ph = <<"9", "6", "6">> \o r.ph]
  ELSE r

\* faulty variant: the MOB_RE test left out
is_good_ph_NoCheck(r) == Some(standardize_ph(remove_bad_chars(r)))

is_good_ph(r) ==
  LET r1 == remove_bad_chars(r)
      r2 == standardize_ph(r1)
  IN IF MOB_RE_is_match(r2.ph) THEN Some(r2) ELSE None

----------------------------------------------------------------------------
(* Inputs *)
\* the digits of the subscriber numbers used by the unit tests
TestDigits == <<"1", "1", "1", "6", "6", "1", "3", "0", "6", "1", "7", "4">>
Fill(n) == SubSeq(TestDigits, 1, n)

\* what may stand in front of the digits
Leads ==
  { <<>>, <<"0">>, <<"0", "0">>, <<"0", "0", "0">>,
    <<"2", "0">>, <<"9", "6", "6">>, <<"5">>, <<"2">>, <<"9", "6">>,
    <<"0", "0", "2", "0">>, <<"0", "0", "9", "6", "6">>,
    <<"0", "2", "0">>, <<"0", "9", "6", "6">>, <<"0", "5">>,
    <<"+", "0">>, <<"+", "0", "0">>, <<"+", "2", "0">>, <<" ", "0">>,
    <<"2", "0", "2", "0">>, <<"9", "6", "6", "5">> }

\* a lead followed by 7 to 12 digits: both sides of {9,11}
PlainPhones == { l \o Fill(n) : l \in Leads, n \in 7..12 }

\* every string of at most MaxShort characters over ShortAlphabet
ShortAlphabet == {"0", "1", "2", "5", "+", " ", "\t", "a"}
ShortPhones == UNION { [1..n -> ShortAlphabet] : n \in 0..MaxShort }

Insert(p, i, c) == SubSeq(p, 1, i) \o <<c>> \o SubSeq(p, i + 1, Len(p))

\* the characters of ins, each a pair <<position, character>>, inserted
\* into p one after the other; a position past the end means the end
RECURSIVE Decorate(_, _)
Decorate(p, ins) ==
  IF ins = <<>> THEN p
  ELSE LET i == IF Head(ins)[1] > Len(p) THEN Len(p) ELSE Head(ins)[1]
       IN Decorate(Insert(p, i, Head(ins)[2]), Tail(ins))

\* a stripped character, the space, a whitespace outside the class, a letter
InsertChars == {"+", " ", "\t", "a"}
DecorBases == { <<"2", "0">> \o Fill(9), <<"9", "6", "6">> \o Fill(9) }

\* the ways to insert k characters into b
Insertions(b, k) == [1..k -> (0..(Len(b) + k - 1)) \X InsertChars]

Record(p, nm, c) == [ph |-> p, name |-> nm, count |-> c]

\* undecorated records
Records ==
  { Record(p, "test1", 0) : p \in ShortPhones }
    \cup { Record(p, m[1], m[2]) :
             p \in PlainPhones, m \in {<<"test1", 0>>, <<"test2", 65535>>} }

NoRecord == Record(<<>>, "", 0)

----------------------------------------------------------------------------
(* SpecFn: the functions called on one record *)
InitFn ==
  /\ \/ record \in Records
     \/ \E b \in DecorBases, k \in 1..MaxInserts :
          \E ins \in Insertions(b, k) :
            record = Record(Decorate(b, ins), "test1", 0)
  /\ trace = <<>>
  /\ arg = record
  /\ ret = None
  /\ input = <<>> /\ pos = 0 /\ output = <<>> /\ rejected = 0 /\ pc = "idle"

\* the record the next call is made on: the original one, or the one the
\* last call returned
Current == IF trace = <<>> THEN record ELSE ret[1]

CallRemoveBadChars ==
  /\ trace \in {<<>>, <<"remove_bad_chars">>}
  /\ arg' = Current
  /\ ret' = Some(remove_bad_chars(Current))
  /\ trace' = Append(trace, "remove_bad_chars")
  /\ UNCHANGED <<record, mainVars>>

CallStandardizePh ==
  /\ trace \in {<<>>, <<"remove_bad_chars">>}
  /\ arg' = Current
  /\ ret' = Some(standardize_ph(Current))
  /\ trace' = Append(trace, "standardize_ph")
  /\ UNCHANGED <<record, mainVars>>

CallIsGoodPh ==
  /\ \/ trace = <<>>
     \/ trace = <<"is_good_ph">> /\ ret # None
  /\ arg' = Current
  /\ ret' = is_good_ph(Current)
  /\ trace' = Append(trace, "is_good_ph")
  /\ UNCHANGED <<record, mainVars>>

NextFn == CallRemoveBadChars \/ CallStandardizePh \/ CallIsGoodPh

SpecFn == InitFn /\ [][NextFn]_vars

----------------------------------------------------------------------------
(* Spec: a run of main *)
\* what rdr.deserialize() yields for a row: Ok(record) or Err(decode error)
OkRow(r) == [ok |-> TRUE, rec |-> r]
ErrRow == [ok |-> FALSE, rec |-> NoRecord]

Chars20 == <<"2", "0", "1", "1", "1", "6", "6", "1", "3", "0", "6", "1">>

RowSamples ==
  { OkRow(Record(Chars20, "test1", 0)),
    OkRow(Record(<<"+", "2", "(", "0", "1", "1", "1", ")", "6", "6", "1",
                   "3", "0", "6", "1">>, "test3", 3)),
    OkRow(Record(Fill(10), "test6", 65535)),
    OkRow(Record(<<"2", "0", "1", "1", "1", "b", "a", "d">>, "bad1", 0)),
    OkRow(Record(<<"0", "0">> \o Chars20, "test2", 0)),
    ErrRow }

InputFiles == UNION { [1..n -> RowSamples] : n \in 0..MaxRows }

Init ==
  /\ input \in InputFiles
  /\ pos = 0
  /\ output = <<>>
  /\ rejected = 0
  /\ pc = "start"
  /\ record = NoRecord /\ trace = <<>> /\ arg = NoRecord /\ ret = None

\* lines 52-63: logger set-up, File::open, File::create; each ? may return
Open ==
  /\ pc = "start"
  /\ pc' \in {"loop", "error"}
  /\ UNCHANGED <<input, pos, output, rejected, fnVars>>

\* faulty variant: a row that failed to decode is skipped
DecodeError_Skip ==
  /\ pc = "loop" /\ pos < Len(input)
  /\ ~input[pos + 1].ok
  /\ pos' = pos + 1
  /\ UNCHANGED <<input, output, rejected, pc, fnVars>>

\* line 65: r? on a row that failed to decode returns the error from main
DecodeError ==
  /\ pc = "loop" /\ pos < Len(input)
  /\ ~input[pos + 1].ok
  /\ pc' = "error"
  /\ UNCHANGED <<input, pos, output, rejected, fnVars>>

\* lines 66, 112-114: is_good_ph gave None; the loop goes on
Reject ==
  /\ pc = "loop" /\ pos < Len(input)
  /\ input[pos + 1].ok
  /\ is_good_ph(input[pos + 1].rec) = None
  /\ pos' = pos + 1
  /\ rejected' = rejected + 1
  /\ UNCHANGED <<input, output, pc, fnVars>>

\* lines 66-67: is_good_ph gave Some(d) and wrt.serialize(d) succeeded
Write ==
  /\ pc = "loop" /\ pos < Len(input)
  /\ input[pos + 1].ok
  /\ is_good_ph(input[pos + 1].rec) # None
  /\ output' = Append(output, is_good_ph(input[pos + 1].rec)[1])
  /\ pos' = pos + 1
  /\ UNCHANGED <<input, rejected, pc, fnVars>>

\* line 67: wrt.serialize(d)? returned an error; the iteration is not completed
WriteError ==
  /\ pc = "loop" /\ pos < Len(input)
  /\ input[pos + 1].ok
  /\ is_good_ph(input[pos + 1].rec) # None
  /\ pc' = "error"
  /\ UNCHANGED <<input, pos, output, rejected, fnVars>>

\* line 64: the iterator is exhausted
EndOfInput ==
  /\ pc = "loop" /\ pos = Len(input)
  /\ pc' = "flush"
  /\ UNCHANGED <<input, pos, output, rejected, fnVars>>

\* lines 70-72: wrt.flush()? then "Done !" and Ok(())
Flush ==
  /\ pc = "flush"
  /\ pc' \in {"done", "error"}
  /\ UNCHANGED <<input, pos, output, rejected, fnVars>>

Next ==
  \/ Open
  \/ DecodeError
  \/ Reject
  \/ Write
  \/ WriteError
  \/ EndOfInput
  \/ Flush

Spec == Init /\ [][Next]_vars

----------------------------------------------------------------------------
(* Properties *)
StripClass(s) == SelectSeq(s, LAMBDA c : c \notin BadChars)
Last(t) == t[Len(t)]
Normalized(r) == standardize_ph(remove_bad_chars(r))

\* the normalized forms of the decoded rows whose normalized phone matches
RECURSIVE Kept(_)
Kept(rows) ==
  IF rows = <<>> THEN <<>>
  ELSE LET r == Normalized(Head(rows).rec) IN
       IF Head(rows).ok /\ MOB_RE_is_match(r.ph)
         THEN <<r>> \o Kept(Tail(rows))
         ELSE Kept(Tail(rows))

NextRowRejected ==
  /\ pc = "loop" /\ pos < Len(input)
  /\ input[pos + 1].ok
  /\ ~MOB_RE_is_match(Normalized(input[pos + 1].rec).ph)

\* C1: at every point of a run of main the output holds exactly the
\* normalized forms of the matching rows among those the loop has handled,
\* in input order; a rejected row adds nothing to the output and the loop
\* goes on to the next row; on normal completion every row was handled and
\* output rows = input rows - rejected rows.
C1_OutputIsKeptRows ==
  /\ [](/\ output = Kept(SubSeq(input, 1, pos))
        /\ pc = "done" => /\ pos = Len(input)
                          /\ Len(output) = Len(input) - rejected)
  /\ [][NextRowRejected =>
          /\ pc' = "loop"
          /\ pos' = pos + 1
          /\ rejected' = rejected + 1
          /\ output' = output]_vars

\* a finished run in which a rejected row came before a written one
C1_Witness ==
  /\ pc = "done"
  /\ rejected > 0
  /\ output # <<>>
  /\ Len(input) = MaxRows
  /\ ~MOB_RE_is_match(Normalized(input[1].rec).ph)
  /\ Last(output) = Normalized(Last(input).rec)
  /\ Last(output).ph # Last(input).rec.ph

\* C2: a phone "00" + s with s matching MOB_RE is accepted and the returned
\* phone is s.
C2_DoubleZeroStripped ==
  (/\ trace = <<"is_good_ph">>
   /\ Len(record.ph) > 2
   /\ SubSeq(record.ph, 1, 2) = <<"0", "0">>
   /\ MOB_RE_is_match(SubSeq(record.ph, 3, Len(record.ph))))
  => ret = Some([record EXCEPT !.ph = SubSeq(record.ph, 3, Len(record.ph))])

\* C3: standardize_ph returns "20" + phone when the phone starts with '1',
\* "966" + phone when it starts with '5', the phone itself otherwise (the
\* empty phone too); the original phone is the tail of the result, unaltered.
C3_PrefixConcatenated ==
  (trace # <<>> /\ Last(trace) = "standardize_ph") =>
    LET p == arg.ph
        q == ret[1].ph
        k == Len(q) - Len(p)
    IN /\ ret # None
       /\ k >= 0
       /\ SubSeq(q, k + 1, Len(q)) = p
       /\ SubSeq(q, 1, k) =
            IF p = <<>> THEN <<>>
            ELSE IF p[1] = "1" THEN <<"2", "0">>
            ELSE IF p[1] = "5" THEN <<"9", "6", "6">>
            ELSE <<>>

C3_Witness ==
  /\ trace = <<"standardize_ph">>
  /\ Len(arg.ph) = 9
  /\ arg.ph[1] = "5"
  /\ ret[1].ph = <<"9", "6", "6">> \o arg.ph

\* C4: a phone that is a string s matching MOB_RE with characters of the
\* stripped class inserted anywhere is accepted, and the returned phone is s.
C4_ClassCharsStrippedAnywhere ==
  (/\ trace = <<"is_good_ph">>
   /\ MOB_RE_is_match(StripClass(record.ph)))
  => ret = Some([record EXCEPT !.ph = StripClass(record.ph)])

\* a class character between the digits and another one after them
C4_Witness ==
  /\ trace = <<"is_good_ph">>
  /\ ret # None
  /\ Len(record.ph) = Len(ret[1].ph) + 2
  /\ Last(record.ph) \in BadChars
  /\ \E i \in 3..(Len(record.ph) - 2) : record.ph[i] \in BadChars

\* C5 as stated: remove_bad_chars applied twice gives what it gives once.
C5_StripIdempotent ==
  trace = <<"remove_bad_chars", "remove_bad_chars">> => ret = Some(arg)

\* C5 amended: remove_bad_chars applied twice gives what it gives once,
\* unless the once-stripped phone begins with '0'.
C5_StripIdempotentNoLeadingZero ==
  (/\ trace = <<"remove_bad_chars", "remove_bad_chars">>
   /\ ~(arg.ph # <<>> /\ arg.ph[1] = "0"))
  => ret = Some(arg)

C5_Witness ==
  /\ trace = <<"remove_bad_chars", "remove_bad_chars">>
  /\ arg.ph # <<>>
  /\ arg.ph[1] # "0"
  /\ Len(arg.ph) < Len(record.ph)
  /\ \E i \in 1..Len(arg.ph) : is_whitespace(arg.ph[i])
  /\ ret = Some(arg)

\* C6: whatever remove_bad_chars, standardize_ph and is_good_ph return has
\* the name and the count of the record given.
C6_NameAndCountKept ==
  (trace # <<>> /\ ret # None) =>
    /\ ret[1].name = record.name
    /\ ret[1].count = record.count

C6_Witness ==
  /\ trace = <<"is_good_ph">>
  /\ ret # None
  /\ ret[1].ph # record.ph
  /\ record.name = "test2"
  /\ record.count = 65535
  /\ ret[1].name = "test2"
  /\ ret[1].count = 65535

IsJunk(c) == c \notin Digit /\ c \notin BadChars

\* C7 as stated: a phone whose trimmed form holds a character that is
\* neither a digit nor of the stripped class is rejected.
C7_JunkRejected ==
  (/\ trace = <<"is_good_ph">>
   /\ \E i \in 1..Len(trim(record.ph)) : IsJunk(trim(record.ph)[i]))
  => ret = None

\* C7 amended: a phone that holds a character that is neither a digit, nor
\* of the stripped class, nor whitespace is rejected.
C7_NonSpaceJunkRejected ==
  (/\ trace = <<"is_good_ph">>
   /\ \E i \in 1..Len(record.ph) :
        IsJunk(record.ph[i]) /\ ~is_whitespace(record.ph[i]))
  => ret = None

\* the letter is the only thing wrong with the phone
C7_Witness ==
  /\ trace = <<"is_good_ph">>
  /\ ret = None
  /\ \E i \in 1..Len(record.ph) : record.ph[i] = "a"
  /\ MOB_RE_is_match(SelectSeq(record.ph, LAMBDA c : c # "a"))

FirstBad ==
  IF \E i \in 1..Len(input) : ~input[i].ok
    THEN CHOOSE i \in 1..Len(input) :
           ~input[i].ok /\ \A j \in 1..(i - 1) : input[j].ok
    ELSE 0

\* C8: when a row fails to decode the run ends in error: the loop never
\* gets past that row, nothing of it or of a later row is written, and the
\* flush and the completion step are not reached.
C8_DecodeErrorIsFatal ==
  /\ [](FirstBad # 0 =>
          /\ pc \notin {"flush", "done"}
          /\ pos < FirstBad
          /\ output = Kept(SubSeq(input, 1, pos)))
  /\ [][(pc = "loop" /\ pos < Len(input) /\ ~input[pos + 1].ok) =>
          /\ pc' = "error"
          /\ pos' = pos
          /\ output' = output
          /\ rejected' = rejected]_vars

\* the error came at a row that had rows before and after it
C8_Witness ==
  /\ pc = "error"
  /\ FirstBad > 1
  /\ FirstBad < Len(input)
  /\ pos = FirstBad - 1
  /\ output # <<>>
  /\ input[Len(input)].ok
  /\ is_good_ph(input[Len(input)].rec) # None

\* C9: is_good_ph applied to a record it returned returns that record again.
C9_AcceptedIsFixedPoint ==
  trace = <<"is_good_ph", "is_good_ph">> => ret = Some(arg)

C9_Witness ==
  /\ trace = <<"is_good_ph", "is_good_ph">>
  /\ arg.ph # record.ph
  /\ arg.ph[1] = "2"
  /\ ret = Some(arg)

\* C10: remove_bad_chars removes one leading '0' of the trimmed phone, if
\* there is one, and then the class characters; a '0' that the class strip
\* brings to the front stays, and standardize_ph leaves such a phone alone.
C10_ZeroDecidedBeforeStrip ==
  /\ trace = <<"remove_bad_chars">> =>
       LET t == trim(record.ph) IN
         ret[1].ph = trim(StripClass(IF t # <<>> /\ t[1] = "0"
                                       THEN Tail(t) ELSE t))
  /\ (/\ trace = <<"remove_bad_chars", "standardize_ph">>
      /\ arg.ph # <<>>
      /\ arg.ph[1] = "0")
     => ret = Some(arg)

C10_Witness ==
  /\ trace = <<"remove_bad_chars", "standardize_ph">>
  /\ Len(record.ph) > 10
  /\ record.ph[1] = "+"
  /\ record.ph[2] = "0"
  /\ arg.ph = Tail(record.ph)
  /\ ret = Some(arg)

====
